---- MODULE Spec2Model ----
(***************************************************************************)
(* Training-log capture and streaming of Text2SongStudio.                   *)
(*                                                                          *)
(*   backend/app/services/metric_parser.py   MetricParser                   *)
(*   backend/app/services/log_capture.py     LogCaptureService              *)
(*   backend/app/services/training.py        TrainingService.start_training *)
(*   backend/app/routers/logs.py             stream_logs.event_generator    *)
(*   backend/app/routers/experiments.py      delete_run                     *)
(*                                                                          *)
(* Every coroutine is cut at its await points.  A database round trip has   *)
(* two moments: the moment the statement takes effect in the database and   *)
(* the moment the coroutine resumes; other coroutines may run in between.   *)
(* A select returns the committed row; a commit writes the whole column     *)
(* value the session computed (the ORM issues UPDATE ... SET col = value).  *)
(***************************************************************************)
EXTENDS Integers, Sequences, FiniteSets, TLC

\* ------------------------------------------------------------------------
\* Bounds of the model
\* ------------------------------------------------------------------------
\* blocks a stream of the process may yield before end-of-stream (log scenarios)
MaxBlocks == 2
\* the clock read by a stream client advances by ClockStep seconds, up to MaxTime
ClockStep == 8
MaxTime == 32
\* blocks with metric lines the process writes (metrics scenarios)
MaxMetricBlocks == 6
\* blocks the process writes in the fault scenarios
MaxFaultBlocks == 3
\* calls of the MetricParser functions: steps of the points, points of a new
\* series, points of a series to downsample
MaxStep == 2
MaxNewPoints == 2
MaxSeriesLen == 30
\* lines given to one parser, one call of parse_log_line each
MaxLines == 2
\* blocks written after the first FINAL_MAX_POINTS ones
MaxTailBlocks == 5
\* samples of a generation job, and requests to cancel it
MaxSamples == 2
MaxCancels == 2

\* ------------------------------------------------------------------------
\* Program constants
\* ------------------------------------------------------------------------
METRIC_UPDATE_INTERVAL == 5
FINAL_MAX_POINTS == 2000
\* significant bits of a Python float
MantissaBits == 53
heartbeat_interval == 15

Streams == {"stdout", "stderr"}
Sessions == Streams \cup {"main"}

PENDING == "pending"
RUNNING == "running"
COMPLETED == "completed"
FAILED == "failed"
CANCELLED == "cancelled"
\* models/job.py JobStatus (COMPLETED, FAILED and CANCELLED have the values of RunStatus)
QUEUED == "queued"
PROCESSING == "processing"
RunStatus == {PENDING, RUNNING, COMPLETED, FAILED, CANCELLED}
TerminalStatus == {COMPLETED, FAILED, CANCELLED}

\* run.error: None, or the text start_training stores (the exception's text
\* is str(e))
NoError == "None"
DatasetNotFound == "Dataset not found"
ExportFailed == "Dataset export failed"
ExitedWithCode == "Training process exited with code"
ExceptionText == "str(e)"

MetricNames ==
    {"loss", "learning_rate", "grad_norm", "epoch", "rewards_chosen", "rewards_rejected"}

\* ------------------------------------------------------------------------
\* Metric values and points
\* ------------------------------------------------------------------------
\* A float value, the decimal num * 10^(-dec) in lowest terms (dec = 0, or num
\* not a multiple of 10): float("1.20") and float("1.2") are the same value.
Val(num, dec) == [num |-> num, dec |-> dec]

RECURSIVE NumDigits(_)
NumDigits(n) == IF n < 10 THEN 1 ELSE 1 + NumDigits(n \div 10)

\* len(str(v).split(".")[-1]) if "." in str(v) else 0, for values below 1e16.
\* str(float) is the shortest repr: "2.0", "1.234", "0.0001"; below 0.0001 it
\* is scientific, "1e-05" (no ".") or "1.5e-05" (the text after "." is "5e-05").
Decimals(v) ==
    IF v.num = 0 THEN 1
    ELSE IF NumDigits(v.num) - 1 - v.dec < -4
         THEN IF NumDigits(v.num) = 1 THEN 0 ELSE (NumDigits(v.num) - 1) + 4
         ELSE IF v.dec = 0 THEN 1 ELSE v.dec

Point(step, value, timestamp) == [step |-> step, value |-> value, timestamp |-> timestamp]

EmptyDict == [n \in {} |-> <<>>]

Truthy(d) == DOMAIN d # {}

SeqSteps(s) == {s[i].step : i \in 1..Len(s)}

\* sorted(step_map.values(), key=step): the keys of step_map are distinct
\* steps, numbers matched by \d+.  The points are collected in ascending order
\* of the step over a range that holds every key, by halves.
RECURSIVE StepBound(_, _)
StepBound(steps, b) ==
    IF \A t \in steps : t <= b THEN b ELSE StepBound(steps, 2 * b + 1)

RECURSIVE SortedRange(_, _, _)
SortedRange(m, lo, hi) ==
    IF lo > hi THEN <<>>
    ELSE IF lo = hi THEN (IF lo \in DOMAIN m THEN <<m[lo]>> ELSE <<>>)
    ELSE LET mid == (lo + hi) \div 2
         IN SortedRange(m, lo, mid) \o SortedRange(m, mid + 1, hi)

SortedByStep(m) == SortedRange(m, 0, StepBound(DOMAIN m, 0))

\* for point in existing[metric_name]: step_map[step] = point
\* (a later point of the series replaces an earlier one of the same step)
RECURSIVE IndexRange(_, _, _)
IndexRange(s, lo, hi) ==
    IF lo > hi THEN [t \in {} |-> <<>>]
    ELSE IF lo = hi THEN (s[lo].step :> s[lo])
    ELSE LET mid == (lo + hi) \div 2
         IN IndexRange(s, mid + 1, hi) @@ IndexRange(s, lo, mid)

IndexByStep(m, s) == IndexRange(s, 1, Len(s)) @@ m

\* for point in data_points: keep the value with more digits after the point
MorePrecise(newPoint, oldPoint) == Decimals(newPoint.value) > Decimals(oldPoint.value)

RECURSIVE MergePoints(_, _)
MergePoints(m, s) ==
    IF s = <<>> THEN m
    ELSE LET p == Head(s)
             m1 == IF p.step \in DOMAIN m
                   THEN IF MorePrecise(p, m[p.step])
                        THEN [m EXCEPT ![p.step] = p]
                        ELSE m
                   ELSE [t \in DOMAIN m \cup {p.step} |-> IF t = p.step THEN p ELSE m[t]]
         IN MergePoints(m1, Tail(s))

MergeSeriesAppending(existing, data_points) == existing \o data_points

MergeSeries(existing, data_points) ==
    SortedByStep(MergePoints(IndexByStep([t \in {} |-> <<>>], existing), data_points))

merge_metrics(existing, new_metrics) ==
    [n \in DOMAIN existing \cup DOMAIN new_metrics |->
        IF n \in DOMAIN new_metrics
        THEN MergeSeries(IF n \in DOMAIN existing THEN existing[n] ELSE <<>>, new_metrics[n])
        ELSE existing[n]]

\* Python floats (IEEE 754 binary64, round to nearest, ties to even), for the
\* quotient of two positive integers and its product with an integer.  A
\* float of value >= 1 is its integer part and the bits of its fraction, most
\* significant first; together they hold MantissaBits significant bits.
RECURSIVE BitLength(_)
BitLength(n) == IF n < 2 THEN 1 ELSE 1 + BitLength(n \div 2)

\* 2^k mod d
RECURSIVE Pow2Mod(_, _)
Pow2Mod(k, d) ==
    IF k = 0 THEN 1 % d
    ELSE LET h == Pow2Mod(k \div 2, d)
         IN (h * h * (IF k % 2 = 1 THEN 2 ELSE 1)) % d

\* the first n bits of the binary fraction r/d (r < d), and what long division
\* has left after them
FracBits(r, d, n) ==
    [k \in 1..n |-> IF 2 * ((r * Pow2Mod(k - 1, d)) % d) >= d THEN 1 ELSE 0]

FracRem(r, d, n) == (r * Pow2Mod(n, d)) % d

AllOnes(bits) == \A k \in 1..Len(bits) : bits[k] = 1

\* bits + one unit in the last place (bits not all ones)
Increment(bits) ==
    LET z == CHOOSE k \in 1..Len(bits) :
                bits[k] = 0 /\ \A j \in (k + 1)..Len(bits) : bits[j] = 1
    IN [k \in 1..Len(bits) |-> IF k < z THEN bits[k] ELSE IF k = z THEN 1 ELSE 0]

\* i * 0.bits, computed eight bits at a time: the carry into the integer part
\* and the fraction bits
ByteWeights == <<128, 64, 32, 16, 8, 4, 2, 1>>

ByteAt(bits, j) ==
    LET B(t) == IF 8 * (j - 1) + t <= Len(bits) THEN bits[8 * (j - 1) + t] * ByteWeights[t]
                ELSE 0
    IN B(1) + B(2) + B(3) + B(4) + B(5) + B(6) + B(7) + B(8)

RECURSIVE MulBytes(_, _)
MulBytes(i, bytes) ==
    IF bytes = <<>> THEN [carry |-> 0, bytes |-> <<>>]
    ELSE LET rest == MulBytes(i, Tail(bytes))
             t == i * Head(bytes) + rest.carry
         IN [carry |-> t \div 256, bytes |-> <<t % 256>> \o rest.bytes]

MulBits(i, bits) ==
    LET n == (Len(bits) + 7) \div 8
        m == MulBytes(i, [j \in 1..n |-> ByteAt(bits, j)])
    IN [carry |-> m.carry,
        bits |-> [k \in 1..Len(bits) |->
                    (m.bytes[((k - 1) \div 8) + 1] \div ByteWeights[((k - 1) % 8) + 1]) % 2]]

\* len(data_points) / max_points, for len > max_points > 0
FloatDiv(len, max_points) ==
    LET int == len \div max_points
        f == MantissaBits - BitLength(int)
        bits == FracBits(len % max_points, max_points, f)
        rem == FracRem(len % max_points, max_points, f)
        roundBit == 2 * rem >= max_points
        sticky == (2 * rem) % max_points # 0
        up == roundBit /\ (sticky \/ bits[f] = 1)
    IN IF ~up THEN [int |-> int, frac |-> bits]
       ELSE IF AllOnes(bits) THEN [int |-> int + 1, frac |-> [k \in 1..f |-> 0]]
       ELSE [int |-> int, frac |-> Increment(bits)]

\* int(i * step): the product rounded to a float, then truncated
IntOfProduct(i, step) ==
    LET m == MulBits(i, step.frac)
        int == i * step.int + m.carry
        f == Len(step.frac)
        keep == MantissaBits - BitLength(int)
    IN IF int = 0 \/ keep >= f THEN int
       ELSE LET roundBit == m.bits[keep + 1] = 1
                sticky == \E k \in (keep + 2)..f : m.bits[k] = 1
                up == roundBit /\ (sticky \/ m.bits[keep] = 1)
            IN IF up /\ AllOnes(SubSeq(m.bits, 1, keep)) THEN int + 1 ELSE int

\* step = len(data_points) / max_points
\* indices = [int(i * step) for i in range(max_points - 1)] + [len - 1]
DownsampleIndicesWithoutLast(len, max_points) ==
    [k \in 1..max_points |-> IntOfProduct(k - 1, FloatDiv(len, max_points))]

DownsampleIndices(len, max_points) ==
    LET step == FloatDiv(len, max_points)
    IN [k \in 1..max_points |->
          IF k = max_points THEN len - 1 ELSE IntOfProduct(k - 1, step)]

\* (max_points >= 1: with max_points = 0 a non-empty series raises
\* ZeroDivisionError)
DownsampleSeries(data_points, max_points) ==
    IF Len(data_points) <= max_points THEN data_points
    ELSE LET indices == DownsampleIndices(Len(data_points), max_points)
         IN [k \in 1..max_points |-> data_points[indices[k] + 1]]

downsample_metrics(metrics, max_points) ==
    [n \in DOMAIN metrics |-> DownsampleSeries(metrics[n], max_points)]

\* An optional value: None, or a value
None == [none |-> TRUE]
Some(v) == [none |-> FALSE, value |-> v]

\* sorted(loss_data, key=step): the sort is stable, points of equal step keep
\* the order of the list
RECURSIVE InsertByStep(_, _)
InsertByStep(sorted, p) ==
    IF sorted = <<>> THEN <<p>>
    ELSE IF p.step < Head(sorted).step THEN <<p>> \o sorted
    ELSE <<Head(sorted)>> \o InsertByStep(Tail(sorted), p)

RECURSIVE SortedStable(_, _)
SortedStable(sorted, s) ==
    IF s = <<>> THEN sorted ELSE SortedStable(InsertByStep(sorted, Head(s)), Tail(s))

sorted_loss_unsorted(loss_data) == loss_data

sorted_loss(loss_data) == SortedStable(<<>>, loss_data)

\* metrics is None or a dict
get_final_loss(metrics) ==
    IF metrics.none THEN None
    ELSE IF ~Truthy(metrics.value) \/ "loss" \notin DOMAIN metrics.value THEN None
    ELSE IF metrics.value["loss"] = <<>> THEN None
    ELSE Some(sorted_loss(metrics.value["loss"])[Len(metrics.value["loss"])].value)

\* ------------------------------------------------------------------------
\* MetricParser.parse_log_line / parse_log_chunk
\* ------------------------------------------------------------------------
\* A log line is represented by what each pattern of METRIC_PATTERNS finds in
\* it: <<>> when the pattern does not match, else the captured groups.
NoMatch == <<>>

PlainLine ==
    [global_step |-> NoMatch, step_only |-> NoMatch, step_loss |-> NoMatch,
     epoch_avg_loss |-> NoMatch, epoch_progress_loss |-> NoMatch,
     hf_trainer_dict |-> NoMatch, learning_rate |-> NoMatch, grad_norm |-> NoMatch,
     rewards_chosen |-> NoMatch, rewards_rejected |-> NoMatch]

\* "Step 100: loss=1.2345": step_only and step_loss both match
StepLossLine(n, v) == [PlainLine EXCEPT !.step_only = <<n>>, !.step_loss = <<n, v>>]
\* "Epoch 2 average loss: 9.0916"
EpochAvgLine(e, v) == [PlainLine EXCEPT !.epoch_avg_loss = <<e, v>>]
\* "Epoch 1: 100%|####| 1/1 [00:01<00:00, loss=9.09]"
EpochProgressLine(e, v) == [PlainLine EXCEPT !.epoch_progress_loss = <<e, v>>]
\* "lr=1.00e-04"
LrLine(v) == [PlainLine EXCEPT !.learning_rate = <<v>>]
\* "global_step = 100"
GlobalStepLine(n) == [PlainLine EXCEPT !.global_step = <<n>>]

_extract_step(line) ==
    IF line.global_step # NoMatch THEN line.global_step
    ELSE IF line.step_only # NoMatch THEN line.step_only
    ELSE NoMatch

\* step_num = self._current_step if self._current_step > 0 else 1
StepOrOne(cs) == IF cs > 0 THEN cs ELSE 1

\* "loss" not in metrics
NotInMetrics(series) == series = <<>>

parse_log_line(line, current_step, timestamp) ==
    LET ex == _extract_step(line)
        cs1 == IF ex # NoMatch THEN ex[1] ELSE current_step
        sl == line.step_loss
        cs2 == IF sl # NoMatch THEN sl[1] ELSE cs1
        loss1 == IF sl # NoMatch THEN <<Point(sl[1], sl[2], timestamp)>> ELSE <<>>
        ea == line.epoch_avg_loss
        useEa == ea # NoMatch /\ NotInMetrics(loss1)
        loss2 == IF useEa THEN <<Point(ea[1], ea[2], timestamp)>> ELSE loss1
        epoch2 == IF useEa THEN <<Point(ea[1], Val(ea[1], 0), timestamp)>> ELSE <<>>
        cs3 == IF useEa THEN ea[1] ELSE cs2
        ep == line.epoch_progress_loss
        useEp == ep # NoMatch /\ NotInMetrics(loss2)
        loss3 == IF useEp THEN <<Point(ep[1], ep[2], timestamp)>> ELSE loss2
        epoch3 == IF useEp THEN <<Point(ep[1], Val(ep[1], 0), timestamp)>> ELSE epoch2
        cs4 == IF useEp THEN ep[1] ELSE cs3
        hf == line.hf_trainer_dict
        useHf == hf # NoMatch /\ NotInMetrics(loss3)
        loss4 == IF useHf THEN <<Point(StepOrOne(cs4), hf[1], timestamp)>> ELSE loss3
        Single(m) == IF m # NoMatch THEN <<Point(StepOrOne(cs4), m[1], timestamp)>> ELSE <<>>
        all == [n \in MetricNames |->
                 CASE n = "loss" -> loss4
                   [] n = "epoch" -> epoch3
                   [] n = "learning_rate" -> Single(line.learning_rate)
                   [] n = "grad_norm" -> Single(line.grad_norm)
                   [] n = "rewards_chosen" -> Single(line.rewards_chosen)
                   [] n = "rewards_rejected" -> Single(line.rewards_rejected)]
        keys == {n \in MetricNames : all[n] # <<>>}
    IN [metrics |-> [n \in keys |-> all[n]], current_step |-> cs4]

\* for line in chunk.split("\n"): combined = merge_metrics(combined, parse_log_line(line))
RECURSIVE ParseLines(_, _, _, _)
ParseLines(lines, combined, current_step, timestamp) ==
    IF lines = <<>> THEN [metrics |-> combined, current_step |-> current_step]
    ELSE LET r == parse_log_line(Head(lines), current_step, timestamp)
         IN ParseLines(Tail(lines), merge_metrics(combined, r.metrics),
                       r.current_step, timestamp)

parse_log_chunk(lines, current_step, timestamp) ==
    ParseLines(lines, EmptyDict, current_step, timestamp)

\* ------------------------------------------------------------------------
\* LogCaptureService._update_run_metrics: the value it assigns to run.metrics
\* ------------------------------------------------------------------------
\* for point in values: if point.step not in existing_steps: existing[key].append(point)
AppendNewSteps(series, values, existing_steps) ==
    series \o SelectSeq(values, LAMBDA point : point.step \notin existing_steps)

UpdatedRunMetrics(run_metrics, metrics) ==
    [n \in DOMAIN run_metrics \cup DOMAIN metrics |->
        IF n \in DOMAIN metrics
        THEN LET old == IF n \in DOMAIN run_metrics THEN run_metrics[n] ELSE <<>>
             IN AppendNewSteps(old, metrics[n], SeqSteps(old))
        ELSE run_metrics[n]]

\* ------------------------------------------------------------------------
\* State
\* ------------------------------------------------------------------------
VARIABLES
    \* database: the ExperimentRun row and its TrainingLog row
    runExists, runStatus, runError, runMetrics, logExists, logData,
    \* the spawned process: blocks each pipe still has to yield, and its exit code
    input, returncode,
    \* capture_subprocess_output: position, and its nonlocal state
    cpc, accumulated_metrics, chunk_count, current_step, captureResult,
    \* read_stream, one per pipe: position, the block in hand, what its session
    \* selected, the value it is about to commit, what append_log returned
    lpc, chunk, logRow, runRow, pendingMetrics, appendRet,
    \* start_training: position
    tpc,
    \* event_generator of one client: position and locals, and the events it yielded
    spc, last_size, last_heartbeat, seenStatus, events,
    \* the event loop's clock
    now,
    \* history: the bytes of the appends in the order their commits completed,
    \* the blocks whose append or parse raised, the blocks of each pipe in the
    \* order they were parsed, and the blocks counted since read_stream last
    \* called _update_run_metrics
    completedAppends, faults, parsed, sinceWrite,
    \* a call of a MetricParser function: which one, its arguments, what it returned
    op, args, out,
    \* one GenerationJob row, and the process-wide set of cancelled job ids
    jobExists, jobStatus, jobProgress, _cancelled_jobs,
    \* process_job: position, whether its select found the job, job.num_samples
    \* and the loop index
    ppc, jobFound, num_samples, sample_index,
    \* cancel_job of the router: position, the row its select returned, the
    \* response, the number of requests so far, and (history) whether a request
    \* has committed CANCELLED and added the id to the set
    kpc, cancelRow, response, cancels, accepted

dbVars == <<runExists, runStatus, runError, runMetrics, logExists, logData>>
procVars == <<input, returncode>>
capVars == <<cpc, accumulated_metrics, chunk_count, current_step, captureResult>>
loopVars == <<lpc, chunk, logRow, runRow, pendingMetrics, appendRet>>
streamVars == <<spc, last_size, last_heartbeat, seenStatus, events>>
histVars == <<completedAppends, faults, parsed, sinceWrite>>
pureVars == <<op, args, out>>
genVars == <<jobExists, jobStatus, jobProgress, _cancelled_jobs, ppc, jobFound, num_samples,
             sample_index, kpc, cancelRow, response, cancels, accepted>>
vars == <<dbVars, procVars, capVars, loopVars, tpc, streamVars, now, histVars, pureVars, genVars>>

\* ------------------------------------------------------------------------
\* Blocks the process writes
\* ------------------------------------------------------------------------
Block(id, bytes, lines) == [id |-> id, bytes |-> bytes, lines |-> lines]

NoBlock == Block(0, <<>>, <<>>)

\* plain output without metrics: stdout blocks are 1 byte, stderr blocks 2 bytes
PlainBlock(s, i) ==
    IF s = "stdout" THEN Block(i, <<i>>, <<PlainLine>>)
    ELSE Block(10 + i, <<10 + i, 10 + i>>, <<PlainLine>>)

PlainBlocks(s, n) == [i \in 1..n |-> PlainBlock(s, i)]

NoRow == [exists |-> FALSE, data |-> <<>>]
NoRunRow == [exists |-> FALSE, metrics |-> EmptyDict]

\* ------------------------------------------------------------------------
\* Initial states
\* ------------------------------------------------------------------------
\* What does not depend on the scenario.
InitIdle ==
    /\ runExists = TRUE
    /\ accumulated_metrics = EmptyDict
    /\ chunk_count = 0
    /\ current_step = 0
    /\ captureResult = -1
    /\ chunk = [s \in Streams |-> NoBlock]
    /\ logRow = [s \in Streams |-> NoRow]
    /\ runRow = [s \in Sessions |-> NoRunRow]
    /\ pendingMetrics = [s \in Sessions |-> EmptyDict]
    /\ appendRet = [s \in Streams |-> -1]
    /\ spc = "closed"
    /\ last_size = 0
    /\ last_heartbeat = 0
    /\ seenStatus = PENDING
    /\ events = <<>>
    /\ now = 0
    /\ faults = {}
    /\ parsed = [s \in Streams |-> <<>>]
    /\ sinceWrite = 0

\* no generation job is followed
NoJobRow == [exists |-> FALSE, status |-> QUEUED]

InitNoJob ==
    /\ jobExists = FALSE
    /\ jobStatus = QUEUED
    /\ jobProgress = 0
    /\ _cancelled_jobs = {}
    /\ ppc = "none"
    /\ jobFound = FALSE
    /\ num_samples = 1
    /\ sample_index = 0
    /\ kpc = "none"
    /\ cancelRow = NoJobRow
    /\ response = "none"
    /\ cancels = 0
    /\ accepted = FALSE

\* no call of a MetricParser function is followed
InitCommon ==
    /\ InitIdle
    /\ InitNoJob
    /\ op = "none"
    /\ args = <<>>
    /\ out = <<>>

\* Log scenarios: a new PENDING run that start_training is about to pick up,
\* or an old CANCELLED run (no code of the repository sets CANCELLED; such a
\* row can only be there already) with or without a log.  The process has
\* stdout and stderr pipes or not (stderr=STDOUT leaves process.stderr None).
Init ==
    /\ InitCommon
    /\ cpc = "idle"
    /\ runError = NoError
    /\ runMetrics = EmptyDict
    /\ returncode \in {0, 1}
    /\ \E hasOut \in BOOLEAN, hasErr \in BOOLEAN, nOut \in 0..MaxBlocks, nErr \in 0..MaxBlocks :
         /\ hasOut \/ nOut = 0
         /\ hasErr \/ nErr = 0
         /\ input = [s \in Streams |->
                       IF s = "stdout" THEN PlainBlocks(s, nOut) ELSE PlainBlocks(s, nErr)]
         /\ lpc = [s \in Streams |->
                       IF (s = "stdout" /\ hasOut) \/ (s = "stderr" /\ hasErr)
                       THEN "waiting" ELSE "none"]
    /\ \/ /\ runStatus = PENDING
          /\ tpc = "start"
          /\ logExists = FALSE
          /\ logData = <<>>
       \/ /\ runStatus = CANCELLED
          /\ tpc = "done"
          /\ logExists \in BOOLEAN
          /\ logData \in {<<>>, <<9>>}
          /\ logExists \/ logData = <<>>
          /\ \A s \in Streams : input[s] = <<>> /\ lpc[s] = "none"
          /\ returncode = 1
    /\ completedAppends = logData

\* ------------------------------------------------------------------------
\* LogCaptureService.append_log
\* ------------------------------------------------------------------------
\* log.data = log.data + chunk, or TrainingLog(data=chunk) when the select found none
AppendedData(row, bytes) == IF row.exists THEN row.data \o bytes ELSE bytes

\* result = await db.execute(select(TrainingLog)...): the session's view of the row
AppendSelect(s) ==
    /\ lpc[s] = "append_select"
    /\ logRow' = [logRow EXCEPT ![s] = [exists |-> logExists, data |-> logData]]
    /\ lpc' = [lpc EXCEPT ![s] = "append_commit"]
    /\ UNCHANGED <<dbVars, procVars, capVars, chunk, runRow, pendingMetrics, appendRet,
                   tpc, streamVars, now, histVars, pureVars, genVars>>

\* await db.commit(); return len(log.data)
AppendCommit(s) ==
    /\ lpc[s] = "append_commit"
    /\ logExists' = TRUE
    /\ logData' = AppendedData(logRow[s], chunk[s].bytes)
    /\ appendRet' = [appendRet EXCEPT ![s] = Len(AppendedData(logRow[s], chunk[s].bytes))]
    /\ completedAppends' = completedAppends \o chunk[s].bytes
    /\ lpc' = [lpc EXCEPT ![s] = "parse"]
    /\ UNCHANGED <<runExists, runStatus, runError, runMetrics, procVars, capVars, chunk,
                   logRow, runRow, pendingMetrics, tpc, streamVars, now, faults, parsed,
                   sinceWrite, pureVars, genVars>>

\* ------------------------------------------------------------------------
\* capture_subprocess_output.read_stream
\* ------------------------------------------------------------------------
\* chunk = await stream.read(4096); if not chunk: break
ReadBlock(s) ==
    /\ lpc[s] = "read"
    /\ IF input[s] = <<>>
       THEN /\ lpc' = [lpc EXCEPT ![s] = "eof"]
            /\ UNCHANGED <<chunk, input>>
       ELSE /\ chunk' = [chunk EXCEPT ![s] = Head(input[s])]
            /\ input' = [input EXCEPT ![s] = Tail(input[s])]
            /\ lpc' = [lpc EXCEPT ![s] = "append_select"]
    /\ UNCHANGED <<dbVars, returncode, capVars, logRow, runRow, pendingMetrics, appendRet,
                   tpc, streamVars, now, histVars, pureVars, genVars>>

\* chunk_count >= LogCaptureService.METRIC_UPDATE_INTERVAL
FlushDue(count) == count >= METRIC_UPDATE_INTERVAL

\* Mutant of ParseMerge: the result is merged into a dict of its own.
ParseMergeIntoFreshDict(s) ==
    /\ lpc[s] = "parse"
    /\ LET r == parse_log_chunk(chunk[s].lines, current_step, chunk[s].id)
       IN /\ current_step' = r.current_step
          /\ accumulated_metrics' = merge_metrics(EmptyDict, r.metrics)
          /\ chunk_count' = chunk_count + 1
          /\ lpc' = [lpc EXCEPT ![s] = "read"]
    /\ parsed' = [parsed EXCEPT ![s] = Append(@, chunk[s].id)]
    /\ UNCHANGED <<dbVars, procVars, cpc, captureResult, chunk, logRow, runRow,
                   pendingMetrics, appendRet, tpc, streamVars, now, completedAppends, faults,
                   sinceWrite, pureVars, genVars>>

\* parsed = metric_parser.parse_log_chunk(chunk); if parsed: merge, count, maybe flush
ParseMerge(s) ==
    /\ lpc[s] = "parse"
    /\ LET r == parse_log_chunk(chunk[s].lines, current_step, chunk[s].id)
       IN /\ current_step' = r.current_step
          /\ IF Truthy(r.metrics)
             THEN /\ accumulated_metrics' = merge_metrics(accumulated_metrics, r.metrics)
                  /\ chunk_count' = chunk_count + 1
                  /\ lpc' = [lpc EXCEPT ![s] =
                                IF FlushDue(chunk_count + 1) THEN "flush_select" ELSE "read"]
                  /\ sinceWrite' = IF FlushDue(chunk_count + 1) THEN 0 ELSE sinceWrite + 1
             ELSE /\ UNCHANGED <<accumulated_metrics, chunk_count, sinceWrite>>
                  /\ lpc' = [lpc EXCEPT ![s] = "read"]
    /\ parsed' = [parsed EXCEPT ![s] = Append(@, chunk[s].id)]
    /\ UNCHANGED <<dbVars, procVars, cpc, captureResult, chunk, logRow, runRow,
                   pendingMetrics, appendRet, tpc, streamVars, now, completedAppends, faults,
                   pureVars, genVars>>

\* ------------------------------------------------------------------------
\* LogCaptureService._update_run_metrics, called by read_stream
\* ------------------------------------------------------------------------
\* result = await db.execute(select(ExperimentRun)...)
FlushSelect(s) ==
    /\ lpc[s] = "flush_select"
    /\ runRow' = [runRow EXCEPT ![s] = [exists |-> runExists, metrics |-> runMetrics]]
    /\ lpc' = [lpc EXCEPT ![s] = "flush_compute"]
    /\ UNCHANGED <<dbVars, procVars, capVars, chunk, logRow, pendingMetrics, appendRet,
                   tpc, streamVars, now, histVars, pureVars, genVars>>

\* if run: existing = run.metrics or {}; add the points of new steps; run.metrics = existing
\* `metrics` is the accumulator itself (merge_metrics returns the dict it was
\* given), read when the coroutine resumes.
FlushCompute(s) ==
    /\ lpc[s] = "flush_compute"
    /\ IF runRow[s].exists
       THEN /\ pendingMetrics' = [pendingMetrics EXCEPT ![s] =
                                    UpdatedRunMetrics(runRow[s].metrics, accumulated_metrics)]
            /\ lpc' = [lpc EXCEPT ![s] = "flush_commit"]
            /\ UNCHANGED chunk_count
       ELSE /\ chunk_count' = 0
            /\ lpc' = [lpc EXCEPT ![s] = "read"]
            /\ UNCHANGED pendingMetrics
    /\ UNCHANGED <<dbVars, procVars, cpc, accumulated_metrics, current_step, captureResult,
                   chunk, logRow, runRow, appendRet, tpc, streamVars, now, histVars, pureVars, genVars>>

\* await db.commit()
FlushCommit(s) ==
    /\ lpc[s] = "flush_commit"
    /\ runMetrics' = pendingMetrics[s]
    /\ lpc' = [lpc EXCEPT ![s] = "flush_resume"]
    /\ UNCHANGED <<runExists, runStatus, runError, logExists, logData, procVars, capVars, chunk,
                   logRow, runRow, pendingMetrics, appendRet, tpc, streamVars, now,
                   histVars, pureVars, genVars>>

\* chunk_count = 0
FlushResume(s) ==
    /\ lpc[s] = "flush_resume"
    /\ chunk_count' = 0
    /\ lpc' = [lpc EXCEPT ![s] = "read"]
    /\ UNCHANGED <<dbVars, procVars, cpc, accumulated_metrics, current_step, captureResult,
                   chunk, logRow, runRow, pendingMetrics, appendRet, tpc, streamVars, now,
                   histVars, pureVars, genVars>>

\* ------------------------------------------------------------------------
\* capture_subprocess_output: gather, final flush, wait
\* ------------------------------------------------------------------------
\* Mutant of LoopsFinished: gather returning with the first task.
SomeLoopFinished == \E s \in Streams : lpc[s] \in {"none", "eof"}

LoopsFinished == \A s \in Streams : lpc[s] \in {"none", "eof"}

\* Mutant of GatherReturns: no final flush.
GatherReturnsSkipsFinalFlush ==
    /\ cpc = "gather"
    /\ LoopsFinished
    /\ cpc' = "wait"
    /\ UNCHANGED <<dbVars, procVars, accumulated_metrics, chunk_count, current_step,
                   captureResult, loopVars, tpc, streamVars, now, histVars, pureVars, genVars>>

\* Mutant of GatherReturns: gather returns when one read_stream is done.
GatherReturnsAfterFirstLoop ==
    /\ cpc = "gather"
    /\ \E s \in Streams : lpc[s] = "eof"
    /\ cpc' = IF Truthy(accumulated_metrics) THEN "final_select" ELSE "wait"
    /\ UNCHANGED <<dbVars, procVars, accumulated_metrics, chunk_count, current_step,
                   captureResult, loopVars, tpc, streamVars, now, histVars, pureVars, genVars>>

\* await asyncio.gather(*tasks) returns; if accumulated_metrics: final flush
GatherReturns ==
    /\ cpc = "gather"
    /\ LoopsFinished
    /\ cpc' = IF Truthy(accumulated_metrics) THEN "final_select" ELSE "wait"
    /\ UNCHANGED <<dbVars, procVars, accumulated_metrics, chunk_count, current_step,
                   captureResult, loopVars, tpc, streamVars, now, histVars, pureVars, genVars>>

\* final_metrics = MetricParser.downsample_metrics(accumulated_metrics, max_points=2000)
FinalMetrics(acc) == downsample_metrics(acc, FINAL_MAX_POINTS)

FinalSelect ==
    /\ cpc = "final_select"
    /\ runRow' = [runRow EXCEPT !["main"] = [exists |-> runExists, metrics |-> runMetrics]]
    /\ cpc' = "final_compute"
    /\ UNCHANGED <<dbVars, procVars, accumulated_metrics, chunk_count, current_step,
                   captureResult, lpc, chunk, logRow, pendingMetrics, appendRet, tpc,
                   streamVars, now, histVars, pureVars, genVars>>

FinalCompute ==
    /\ cpc = "final_compute"
    /\ IF runRow["main"].exists
       THEN /\ pendingMetrics' = [pendingMetrics EXCEPT !["main"] =
                  UpdatedRunMetrics(runRow["main"].metrics, FinalMetrics(accumulated_metrics))]
            /\ cpc' = "final_commit"
       ELSE /\ cpc' = "wait"
            /\ UNCHANGED pendingMetrics
    /\ UNCHANGED <<dbVars, procVars, accumulated_metrics, chunk_count, current_step,
                   captureResult, lpc, chunk, logRow, runRow, appendRet, tpc, streamVars,
                   now, histVars, pureVars, genVars>>

FinalCommit ==
    /\ cpc = "final_commit"
    /\ runMetrics' = pendingMetrics["main"]
    /\ cpc' = "wait"
    /\ UNCHANGED <<runExists, runStatus, runError, logExists, logData, procVars, accumulated_metrics,
                   chunk_count, current_step, captureResult, loopVars, tpc, streamVars, now,
                   histVars, pureVars, genVars>>

\* await process.wait(); return process.returncode
ProcessWait ==
    /\ cpc = "wait"
    /\ captureResult' = returncode
    /\ cpc' = "returned"
    /\ UNCHANGED <<dbVars, procVars, accumulated_metrics, chunk_count, current_step,
                   loopVars, tpc, streamVars, now, histVars, pureVars, genVars>>

\* ------------------------------------------------------------------------
\* TrainingService.start_training
\* ------------------------------------------------------------------------
\* select the run; a missing dataset fails the run; else status = RUNNING, commit
StartTraining ==
    /\ tpc = "start"
    /\ IF ~runExists
       THEN /\ tpc' = "done"
            /\ UNCHANGED <<runStatus, runError>>
       ELSE \/ /\ runStatus' = FAILED
               /\ runError' = DatasetNotFound
               /\ tpc' = "done"
            \/ /\ runStatus' = RUNNING
               /\ tpc' = "create_log"
               /\ UNCHANGED runError
    /\ UNCHANGED <<runExists, runMetrics, logExists, logData, procVars, capVars, loopVars,
                   streamVars, now, histVars, pureVars, genVars>>

\* LogCaptureService.create_log: TrainingLog(run_id, data=b""), commit
CreateLog ==
    /\ tpc = "create_log"
    /\ logExists' = TRUE
    /\ logData' = <<>>
    /\ tpc' = "export"
    /\ UNCHANGED <<runExists, runStatus, runError, runMetrics, procVars, capVars, loopVars,
                   streamVars, now, histVars, pureVars, genVars>>

\* export_dataset raises: status = FAILED, commit, return
ExportFails ==
    /\ tpc = "export"
    /\ runStatus' = FAILED
    /\ runError' = ExportFailed
    /\ tpc' = "done"
    /\ UNCHANGED <<runExists, runMetrics, logExists, logData, procVars, capVars, loopVars,
                   streamVars, now, histVars, pureVars, genVars>>

\* create_subprocess_exec; capture_subprocess_output starts a read_stream per pipe
StartCapture ==
    /\ tpc = "export"
    /\ tpc' = "capture"
    /\ cpc' = "gather"
    /\ lpc' = [s \in Streams |-> IF lpc[s] = "waiting" THEN "read" ELSE lpc[s]]
    /\ UNCHANGED <<dbVars, procVars, accumulated_metrics, chunk_count, current_step,
                   captureResult, chunk, logRow, runRow, pendingMetrics, appendRet,
                   streamVars, now, histVars, pureVars, genVars>>

\* run.status = COMPLETED if exit_code == 0 else FAILED
StatusForExit(exit_code) == IF exit_code = 0 THEN COMPLETED ELSE FAILED

\* after capture returned: select the run; if run: set the status (and the
\* error text of a non-zero exit), commit; _update_experiment_status follows
FinishTraining ==
    /\ tpc = "capture"
    /\ cpc = "returned"
    /\ runStatus' = IF runExists THEN StatusForExit(captureResult) ELSE runStatus
    /\ runError' = IF runExists /\ captureResult # 0 THEN ExitedWithCode ELSE runError
    /\ tpc' = IF runExists THEN "experiment" ELSE "done"
    /\ UNCHANGED <<runExists, runMetrics, logExists, logData, procVars, capVars, loopVars,
                   streamVars, now, histVars, pureVars, genVars>>

\* await TrainingService._update_experiment_status(run.experiment_id, db)
UpdateExperimentStatus ==
    /\ tpc = "experiment"
    /\ tpc' = "done"
    /\ UNCHANGED <<dbVars, procVars, capVars, loopVars, streamVars, now, histVars, pureVars, genVars>>

\* ------------------------------------------------------------------------
\* Exceptions
\* ------------------------------------------------------------------------
Fault(kind, id) == [kind |-> kind, id |-> id]

\* append_log raises (its select or its commit fails): nothing is stored, the
\* exception leaves read_stream, which has no handler around append_log
AppendFails(s) ==
    /\ lpc[s] \in {"append_select", "append_commit"}
    /\ lpc' = [lpc EXCEPT ![s] = "raised"]
    /\ faults' = faults \cup {Fault("append", chunk[s].id)}
    /\ UNCHANGED <<dbVars, procVars, capVars, chunk, logRow, runRow, pendingMetrics,
                   appendRet, tpc, streamVars, now, completedAppends, parsed, sinceWrite,
                   pureVars, genVars>>

\* Mutant of ParseFails: the exception is not caught.
ParseFailsEscapes(s) ==
    /\ lpc[s] = "parse"
    /\ lpc' = [lpc EXCEPT ![s] = "raised"]
    /\ faults' = faults \cup {Fault("parse", chunk[s].id)}
    /\ UNCHANGED <<dbVars, procVars, capVars, chunk, logRow, runRow, pendingMetrics,
                   appendRet, tpc, streamVars, now, completedAppends, parsed, sinceWrite,
                   pureVars, genVars>>

\* parse_log_chunk or merge_metrics raises inside the try of read_stream:
\* `except Exception: pass`.  merge_metrics works on the accumulator itself, one
\* series at a time, so the series merged before the exception stay merged.
ParseFails(s) ==
    /\ lpc[s] = "parse"
    /\ LET r == parse_log_chunk(chunk[s].lines, current_step, chunk[s].id)
       IN /\ current_step' \in {current_step, r.current_step}
          /\ \E K \in SUBSET DOMAIN r.metrics :
                /\ K # DOMAIN r.metrics \/ K = {}
                /\ accumulated_metrics' =
                      merge_metrics(accumulated_metrics, [n \in K |-> r.metrics[n]])
    /\ lpc' = [lpc EXCEPT ![s] = "read"]
    /\ faults' = faults \cup {Fault("parse", chunk[s].id)}
    /\ parsed' = [parsed EXCEPT ![s] = Append(@, chunk[s].id)]
    /\ UNCHANGED <<dbVars, procVars, cpc, chunk_count, captureResult, chunk, logRow, runRow,
                   pendingMetrics, appendRet, tpc, streamVars, now, completedAppends,
                   sinceWrite, pureVars, genVars>>

\* asyncio.gather re-raises the first exception of a read_stream to capture,
\* which has no handler: it reaches the except of start_training.  The other
\* read_stream is not cancelled.
GatherRaises ==
    /\ tpc = "capture"
    /\ cpc = "gather"
    /\ \E s \in Streams : lpc[s] = "raised"
    /\ cpc' = "raised"
    /\ tpc' = "handler"
    /\ UNCHANGED <<dbVars, procVars, accumulated_metrics, chunk_count, current_step,
                   captureResult, loopVars, streamVars, now, histVars, pureVars, genVars>>

\* the select, _register_adapter or the commit of the result raises
FinishRaises ==
    /\ tpc = "capture"
    /\ cpc = "returned"
    /\ tpc' = "handler"
    /\ UNCHANGED <<dbVars, procVars, capVars, loopVars, streamVars, now, histVars, pureVars, genVars>>

\* _update_experiment_status raises, after the commit of the result
UpdateExperimentRaises ==
    /\ tpc = "experiment"
    /\ tpc' = "handler"
    /\ UNCHANGED <<dbVars, procVars, capVars, loopVars, streamVars, now, histVars, pureVars, genVars>>

\* Mutant of HandleError: the handler records nothing.
HandleErrorLeavesRun ==
    /\ tpc = "handler"
    /\ tpc' = "done"
    /\ UNCHANGED <<dbVars, procVars, capVars, loopVars, streamVars, now, histVars, pureVars, genVars>>

\* except Exception as e: select the run; if run: status = FAILED,
\* error = str(e), commit
HandleError ==
    /\ tpc = "handler"
    /\ runStatus' = IF runExists THEN FAILED ELSE runStatus
    /\ runError' = IF runExists THEN ExceptionText ELSE runError
    /\ tpc' = "done"
    /\ UNCHANGED <<runExists, runMetrics, logExists, logData, procVars, capVars, loopVars,
                   streamVars, now, histVars, pureVars, genVars>>

\* ------------------------------------------------------------------------
\* routers/experiments.py delete_run: only a run in a terminal state; the
\* training_logs row goes with it (ondelete CASCADE)
\* ------------------------------------------------------------------------
DeleteRun ==
    /\ runExists
    /\ runStatus \in TerminalStatus
    /\ runExists' = FALSE
    /\ logExists' = FALSE
    /\ logData' = <<>>
    /\ UNCHANGED <<runStatus, runError, runMetrics, procVars, capVars, loopVars, tpc, streamVars,
                   now, histVars, pureVars, genVars>>

\* ------------------------------------------------------------------------
\* routers/logs.py stream_logs.event_generator
\* ------------------------------------------------------------------------
\* `at` is the clock reading of the iteration that yielded the event
LogEvent(data, t) ==
    [kind |-> "log", data |-> data, exit_code |-> 0, final_size |-> 0, at |-> t]
HeartbeatEvent(t) ==
    [kind |-> "heartbeat", data |-> <<>>, exit_code |-> 0, final_size |-> 0, at |-> t]
DoneEvent(exit_code, final_size, t) ==
    [kind |-> "done", data |-> <<>>, exit_code |-> exit_code, final_size |-> final_size,
     at |-> t]

\* stream_logs: 404 unless the run exists; the generator starts with
\* last_size = 0 and last_heartbeat = loop.time()
OpenStream ==
    /\ spc = "closed"
    /\ runExists
    /\ spc' = "poll_run"
    /\ last_size' = 0
    /\ last_heartbeat' = now
    /\ UNCHANGED <<dbVars, procVars, capVars, loopVars, tpc, seenStatus, events, now,
                   histVars, pureVars, genVars>>

\* Mutant of PollRun: a missing run answered with a done event.
PollRunEmitsDone ==
    /\ spc = "poll_run"
    /\ IF ~runExists
       THEN /\ spc' = "ended"
            /\ events' = Append(events, DoneEvent(1, 0, now))
            /\ UNCHANGED seenStatus
       ELSE /\ seenStatus' = runStatus
            /\ spc' = "poll_log"
            /\ UNCHANGED events
    /\ UNCHANGED <<dbVars, procVars, capVars, loopVars, tpc, last_size, last_heartbeat,
                   now, histVars, pureVars, genVars>>

\* run = select(ExperimentRun); if not run: break
PollRun ==
    /\ spc = "poll_run"
    /\ IF ~runExists
       THEN /\ spc' = "ended"
            /\ UNCHANGED seenStatus
       ELSE /\ seenStatus' = runStatus
            /\ spc' = "poll_log"
    /\ UNCHANGED <<dbVars, procVars, capVars, loopVars, tpc, last_size, last_heartbeat,
                   events, now, histVars, pureVars, genVars>>

\* new_data = log.data[last_size:current_size]
NewData(data, from, to) == SubSeq(data, from + 1, to)

\* Mutant of ExitCodeFor: a cancelled run reported as a success.
ExitCodeForCancelledZero(status) == IF status \in {COMPLETED, CANCELLED} THEN 0 ELSE 1

\* exit_code = 0 if run.status == RunStatus.COMPLETED else 1
ExitCodeFor(status) == IF status = COMPLETED THEN 0 ELSE 1

\* Mutant of HeartbeatDue: a heartbeat as soon as the clock has moved.
HeartbeatDueAnyElapsed(current_time, last) == current_time - last > 0

\* current_time - last_heartbeat >= heartbeat_interval
HeartbeatDue(current_time, last) == current_time - last >= heartbeat_interval

\* Mutant of RunIsComplete: CANCELLED left out of the tuple.
RunIsCompleteWithoutCancelled(status) == status \in {COMPLETED, FAILED}

\* run.status in (RunStatus.COMPLETED, RunStatus.FAILED, RunStatus.CANCELLED)
RunIsComplete(status) == status \in TerminalStatus

\* The events of one iteration after the run was found, given the log row read.
\* The second "remaining data" send of the terminal branch compares the same
\* row with the last_size just set from it.
PollEvents(status, size, data, last, last_hb, current_time) ==
    LET sent == IF size > last
                THEN <<LogEvent(NewData(data, last, size), current_time)>> ELSE <<>>
        last1 == IF size > last THEN size ELSE last
    IN IF RunIsComplete(status)
       THEN sent
            \o (IF size > last1 THEN <<LogEvent(NewData(data, last1, size), current_time)>>
                ELSE <<>>)
            \o <<DoneEvent(ExitCodeFor(status), size, current_time)>>
       ELSE sent
            \o (IF HeartbeatDue(current_time, last_hb)
                THEN <<HeartbeatEvent(current_time)>> ELSE <<>>)

\* log = select(TrainingLog); send new data; done on a terminal status; else heartbeat
PollLog ==
    /\ spc = "poll_log"
    /\ LET size == IF logExists THEN Len(logData) ELSE 0
       IN /\ events' = events \o PollEvents(seenStatus, size, logData, last_size,
                                            last_heartbeat, now)
          /\ last_size' = IF size > last_size THEN size ELSE last_size
          /\ IF RunIsComplete(seenStatus)
             THEN /\ spc' = "ended"
                  /\ UNCHANGED last_heartbeat
             ELSE /\ spc' = "sleep"
                  /\ last_heartbeat' = IF HeartbeatDue(now, last_heartbeat)
                                       THEN now ELSE last_heartbeat
    /\ UNCHANGED <<dbVars, procVars, capVars, loopVars, tpc, seenStatus, now,
                   histVars, pureVars, genVars>>

\* await asyncio.sleep(poll_interval): at the next iteration the loop's clock
\* reads d seconds later (d = 0: the difference does not show at ClockStep)
PollSleep(d) ==
    /\ spc = "sleep"
    /\ spc' = "poll_run"
    /\ now + d <= MaxTime
    /\ now' = now + d
    /\ UNCHANGED <<dbVars, procVars, capVars, loopVars, tpc, last_size, last_heartbeat,
                   seenStatus, events, histVars, pureVars, genVars>>

\* ------------------------------------------------------------------------
\* Specifications
\* ------------------------------------------------------------------------
TrainingNext ==
    \/ StartTraining
    \/ CreateLog
    \/ ExportFails
    \/ StartCapture
    \/ FinishTraining
    \/ UpdateExperimentStatus

DrainNext == \E s \in Streams : ReadBlock(s) \/ AppendSelect(s) \/ AppendCommit(s) \/ ParseMerge(s)

ClientNext == OpenStream \/ PollRun \/ PollLog

\* Log capture with both pipes and one stream client, over less than
\* heartbeat_interval seconds.
Next ==
    \/ TrainingNext
    \/ DrainNext
    \/ GatherReturns
    \/ ProcessWait
    \/ DeleteRun
    \/ ClientNext
    \/ PollSleep(0)

Spec == Init /\ [][Next]_vars

\* The same with stderr merged into stdout (as start_training spawns the
\* process) and the clock running.
InitClock ==
    /\ Init
    /\ lpc["stderr"] = "none"

NextClock ==
    \/ TrainingNext
    \/ DrainNext
    \/ GatherReturns
    \/ ProcessWait
    \/ DeleteRun
    \/ ClientNext
    \/ \E d \in {0, ClockStep} : PollSleep(d)

SpecClock == InitClock /\ [][NextClock]_vars

\* SpecClock with the event loop resuming the generator: each step of the
\* poll loop that stays enabled is eventually taken.
SpecLive ==
    /\ SpecClock
    /\ WF_vars(PollRun)
    /\ WF_vars(PollLog)
    /\ WF_vars(\E d \in {0, ClockStep} : PollSleep(d))

\* ------------------------------------------------------------------------
\* Metrics scenarios: capture_subprocess_output on a RUNNING run whose log
\* exists, the process writing MaxMetricBlocks blocks of one metric line each,
\* the first k to stdout and the rest to stderr.
\* ------------------------------------------------------------------------
\* "Step k: loss=1.k"; the fourth block is "Epoch 2 average loss: 9.0916"
MetricLine(k) ==
    IF k = 4 THEN EpochAvgLine(2, Val(90916, 4)) ELSE StepLossLine(k, Val(10 + k, 1))

\* (one byte stands for the text of the block: the content of the log is the
\* subject of the log scenarios)
MetricBlock(k) == Block(k, <<0>>, <<MetricLine(k)>>)

\* run.metrics before the capture: empty, or left by an earlier capture
RestartMetrics == [n \in {"loss"} |-> <<Point(3, Val(1, 0), 0)>>]

InitCapture ==
    /\ InitCommon
    /\ runStatus = RUNNING
    /\ runError = NoError
    /\ runMetrics \in {EmptyDict, RestartMetrics}
    /\ logExists = TRUE
    /\ logData = <<>>
    /\ returncode = 0
    /\ tpc = "capture"
    /\ cpc = "gather"
    /\ lpc = [s \in Streams |-> "read"]
    /\ \E k \in 0..MaxMetricBlocks :
         input = [s \in Streams |->
                    IF s = "stdout" THEN [i \in 1..k |-> MetricBlock(i)]
                    ELSE [i \in 1..(MaxMetricBlocks - k) |-> MetricBlock(k + i)]]
    /\ completedAppends = <<>>

FlushNext == \E s \in Streams : FlushSelect(s) \/ FlushCompute(s) \/ FlushCommit(s) \/ FlushResume(s)

NextCapture ==
    \/ DrainNext
    \/ FlushNext
    \/ GatherReturns
    \/ FinalSelect
    \/ FinalCompute
    \/ FinalCommit
    \/ ProcessWait
    \/ FinishTraining

SpecCapture == InitCapture /\ [][NextCapture]_vars

\* ------------------------------------------------------------------------
\* Fault scenarios: start_training on a PENDING run, the process writing
\* MaxFaultBlocks blocks of one metric line each (block k is the byte k), any
\* append, parse or later step of start_training raising.
\* ------------------------------------------------------------------------
FaultBlock(k) == Block(k, <<k>>, <<MetricLine(k)>>)

InitFault ==
    /\ InitCommon
    /\ runStatus = PENDING
    /\ runError = NoError
    /\ runMetrics = EmptyDict
    /\ logExists = FALSE
    /\ logData = <<>>
    /\ returncode \in {0, 1}
    /\ tpc = "start"
    /\ cpc = "idle"
    /\ \E k \in 0..MaxFaultBlocks, hasErr \in BOOLEAN :
         /\ hasErr \/ k = MaxFaultBlocks
         /\ lpc = [s \in Streams |-> IF s = "stdout" \/ hasErr THEN "waiting" ELSE "none"]
         /\ input = [s \in Streams |->
                       IF s = "stdout" THEN [i \in 1..k |-> FaultBlock(i)]
                       ELSE [i \in 1..(MaxFaultBlocks - k) |-> FaultBlock(k + i)]]
    /\ completedAppends = <<>>

NextFault ==
    \/ TrainingNext
    \/ DrainNext
    \/ GatherReturns
    \/ FinalSelect
    \/ FinalCompute
    \/ FinalCommit
    \/ ProcessWait
    \/ \E s \in Streams : AppendFails(s) \/ ParseFails(s)
    \/ GatherRaises
    \/ FinishRaises
    \/ UpdateExperimentRaises
    \/ HandleError

SpecFault == InitFault /\ [][NextFault]_vars

\* ------------------------------------------------------------------------
\* Calls of the MetricParser functions on their own: one call of
\* merge_metrics followed by a second one that merges the same new metrics into
\* the result, or one call of downsample_metrics, get_final_loss or
\* parse_log_line.  args holds the arguments as passed and out what the calls
\* returned (merge_metrics updates existing in place and returns it).
\* ------------------------------------------------------------------------
\* 1.2, 1.234 and 1e-05
PureValues == {Val(12, 1), Val(1234, 3), Val(1, 5)}

\* existing series: what merge_metrics left there, unique steps in ascending
\* order, the points stamped 0
ExistingSeries ==
    UNION {{SortedByStep([st \in S |-> Point(st, c[st], 0)]) : c \in [S -> PureValues]} :
              S \in SUBSET (1..MaxStep)}

\* a series in no order that holds a step twice
DisorderedSeries ==
    <<Point(2, Val(12, 1), 0), Point(1, Val(1234, 3), 0), Point(2, Val(1234, 3), 0)>>

\* new series: up to MaxNewPoints points in any order, steps repeated or not,
\* each point stamped with its position
NewSeries ==
    UNION {{[k \in 1..n |-> Point(f[k][1], f[k][2], k)] :
               f \in [1..n -> (1..MaxStep) \X PureValues]} : n \in 0..MaxNewPoints}

LrSeries == <<Point(1, Val(1, 5), 1)>>

ExistingMetrics ==
    {EmptyDict}
        \cup {[n \in {"loss"} |-> a] : a \in ExistingSeries}
        \cup {[n \in {"loss", "epoch"} |->
                 IF n = "loss" THEN DisorderedSeries ELSE <<Point(2, Val(2, 0), 0)>>]}

NewMetrics ==
    {EmptyDict}
        \cup {[n \in {"loss"} |-> b] : b \in NewSeries}
        \cup {[n \in {"loss", "learning_rate"} |-> IF n = "loss" THEN b ELSE LrSeries] :
                 b \in {x \in NewSeries : Len(x) <= 1}}

\* a series of len points at steps 1..len
LongSeries(len) == [k \in 1..len |-> Point(k, Val(k, 0), 0)]

DownsampleArgs ==
    {<<[n \in {"loss"} |-> LongSeries(len)], max_points>> :
        len \in 0..MaxSeriesLen, max_points \in 1..MaxSeriesLen}

FinalLossArgs ==
    {<<None>>, <<Some(EmptyDict)>>, <<Some([n \in {"learning_rate"} |-> LrSeries])>>}
        \cup {<<Some([n \in {"loss"} |-> b])>> : b \in NewSeries}
        \cup {<<Some([n \in {"loss"} |-> DisorderedSeries])>>}

\* lines by the patterns that match them: a line that step_loss matches has a
\* "step N" that step_only matches too, at that place or earlier in the line
PureLines ==
    {[PlainLine EXCEPT !.global_step = g, !.step_only = so, !.step_loss = sl,
                       !.epoch_avg_loss = ea, !.epoch_progress_loss = ep,
                       !.hf_trainer_dict = hf, !.learning_rate = lr] :
        g \in {NoMatch, <<0>>, <<7>>}, so \in {NoMatch, <<3>>, <<5>>},
        sl \in {NoMatch, <<3, Val(12, 1)>>},
        ea \in {NoMatch, <<2, Val(90916, 4)>>},
        ep \in {NoMatch, <<4, Val(909, 2)>>},
        hf \in {NoMatch, <<Val(1234, 3)>>},
        lr \in {NoMatch, <<Val(1, 5)>>}}

ParseLineArgs ==
    {<<line, cs, 1>> : line \in {l \in PureLines : l.step_loss # NoMatch => l.step_only # NoMatch},
                       cs \in {0, 6}}

\* lines for a sequence of calls on one parser: step markers, "Step 0", metric
\* values with and without a step on the line
\* "lr=1.00e-04 grad_norm=0.5 rewards/chosen=1.5 rewards/rejected=0.5"
ValuesLine ==
    [PlainLine EXCEPT !.learning_rate = <<Val(1, 4)>>, !.grad_norm = <<Val(5, 1)>>,
                      !.rewards_chosen = <<Val(15, 1)>>, !.rewards_rejected = <<Val(5, 1)>>]

SessionLines ==
    {GlobalStepLine(7), GlobalStepLine(0),
     [PlainLine EXCEPT !.step_only = <<5>>],
     [PlainLine EXCEPT !.step_only = <<5>>, !.global_step = <<7>>],
     ValuesLine,
     [ValuesLine EXCEPT !.step_only = <<3>>, !.step_loss = <<3, Val(12, 1)>>],
     [LrLine(Val(1, 4)) EXCEPT !.step_only = <<0>>, !.step_loss = <<0, Val(25, 1)>>],
     [LrLine(Val(1, 4)) EXCEPT !.epoch_avg_loss = <<2, Val(90916, 4)>>]}

ParseLinesArgs == {<<lines>> : lines \in UNION {[1..n -> SessionLines] : n \in 1..MaxLines}}

InitPure ==
    /\ InitIdle
    /\ InitNoJob
    /\ runStatus = COMPLETED
    /\ runError = NoError
    /\ runMetrics = EmptyDict
    /\ logExists = TRUE
    /\ logData = <<>>
    /\ returncode = 0
    /\ tpc = "done"
    /\ cpc = "idle"
    /\ lpc = [s \in Streams |-> "none"]
    /\ input = [s \in Streams |-> <<>>]
    /\ completedAppends = <<>>
    /\ out = <<>>
    /\ \/ op = "merge_metrics" /\ args \in ExistingMetrics \X NewMetrics
       \/ op = "downsample_metrics" /\ args \in DownsampleArgs
       \/ op = "get_final_loss" /\ args \in FinalLossArgs
       \/ op = "parse_log_line" /\ args \in ParseLineArgs
       \/ op = "parse_log_lines" /\ args \in ParseLinesArgs

notPureVars == <<dbVars, procVars, capVars, loopVars, tpc, streamVars, now, histVars, genVars>>

CallMerge ==
    /\ op = "merge_metrics"
    /\ out = <<>>
    /\ out' = <<merge_metrics(args[1], args[2])>>
    /\ UNCHANGED <<op, args, notPureVars>>

\* merge_metrics(merged, new_metrics) on the result of the first call
CallMergeAgain ==
    /\ op = "merge_metrics"
    /\ Len(out) = 1
    /\ out' = Append(out, merge_metrics(out[1], args[2]))
    /\ UNCHANGED <<op, args, notPureVars>>

CallDownsample ==
    /\ op = "downsample_metrics"
    /\ out = <<>>
    /\ out' = <<downsample_metrics(args[1], args[2])>>
    /\ UNCHANGED <<op, args, notPureVars>>

CallGetFinalLoss ==
    /\ op = "get_final_loss"
    /\ out = <<>>
    /\ out' = <<get_final_loss(args[1])>>
    /\ UNCHANGED <<op, args, notPureVars>>

CallParseLogLine ==
    /\ op = "parse_log_line"
    /\ out = <<>>
    /\ out' = <<parse_log_line(args[1], args[2], args[3])>>
    /\ UNCHANGED <<op, args, notPureVars>>

\* the next call of parse_log_line on a parser made by MetricParser():
\* _current_step is 0 at first, then what the call before left
CallParseNextLine ==
    /\ op = "parse_log_lines"
    /\ Len(out) < Len(args[1])
    /\ out' = Append(out, parse_log_line(args[1][Len(out) + 1],
                                         IF out = <<>> THEN 0 ELSE out[Len(out)].current_step,
                                         Len(out) + 1))
    /\ UNCHANGED <<op, args, notPureVars>>

NextPure ==
    \/ CallMerge
    \/ CallMergeAgain
    \/ CallDownsample
    \/ CallGetFinalLoss
    \/ CallParseLogLine
    \/ CallParseNextLine

SpecPure == InitPure /\ [][NextPure]_vars

\* ------------------------------------------------------------------------
\* The end of a long capture: a run that started with empty metrics, whose
\* process has written FINAL_MAX_POINTS blocks "Step k: loss=..." so far, one
\* loss point each, right after the periodic flush of the last of them
\* (FINAL_MAX_POINTS is a multiple of METRIC_UPDATE_INTERVAL).  MaxTailBlocks
\* more blocks follow, the last one on either pipe.
\* ------------------------------------------------------------------------
TailLine(k) == StepLossLine(k, Val(10 + k, 1))

TailBlock(k) == Block(k, <<0>>, <<TailLine(k)>>)

\* what parsing and merging the blocks 1..len has accumulated
AccumulatedLoss(len) == [n \in {"loss"} |-> [k \in 1..len |-> Point(k, Val(10 + k, 1), k)]]

InitLong ==
    /\ InitNoJob
    /\ op = "none"
    /\ args = <<>>
    /\ out = <<>>
    /\ runExists = TRUE
    /\ runStatus = RUNNING
    /\ runError = NoError
    /\ runMetrics = AccumulatedLoss(FINAL_MAX_POINTS)
    /\ accumulated_metrics = AccumulatedLoss(FINAL_MAX_POINTS)
    /\ chunk_count = 0
    /\ current_step = FINAL_MAX_POINTS
    /\ logExists = TRUE
    /\ logData = [k \in 1..FINAL_MAX_POINTS |-> 0]
    /\ completedAppends = [k \in 1..FINAL_MAX_POINTS |-> 0]
    /\ returncode = 0
    /\ captureResult = -1
    /\ tpc = "capture"
    /\ cpc = "gather"
    /\ lpc = [s \in Streams |-> "read"]
    /\ chunk = [s \in Streams |-> NoBlock]
    /\ logRow = [s \in Streams |-> NoRow]
    /\ runRow = [s \in Sessions |-> NoRunRow]
    /\ pendingMetrics = [s \in Sessions |-> EmptyDict]
    /\ appendRet = [s \in Streams |-> -1]
    /\ spc = "closed"
    /\ last_size = 0
    /\ last_heartbeat = 0
    /\ seenStatus = PENDING
    /\ events = <<>>
    /\ now = 0
    /\ faults = {}
    /\ parsed = [s \in Streams |-> <<>>]
    /\ sinceWrite = 0
    /\ \E k \in (MaxTailBlocks - 1)..MaxTailBlocks :
         input = [s \in Streams |->
                    IF s = "stdout" THEN [i \in 1..k |-> TailBlock(FINAL_MAX_POINTS + i)]
                    ELSE [i \in 1..(MaxTailBlocks - k) |-> TailBlock(FINAL_MAX_POINTS + k + i)]]

SpecLong == InitLong /\ [][NextCapture]_vars

\* ------------------------------------------------------------------------
\* Generation jobs: cancel_job of routers/generation.py and process_job of
\* services/generation.py on one job.  Each action is one await of the code
\* with the statements that run when it resumes.
\* ------------------------------------------------------------------------
job_id == "job"

\* what process_job, cancel_job and both leave alone
notProcessVars == <<kpc, cancelRow, response, cancels, accepted>>
notCancelVars == <<ppc, jobFound, num_samples, sample_index, jobProgress>>
notJobVars == <<dbVars, procVars, capVars, loopVars, tpc, streamVars, now, histVars, pureVars>>

\* GenerationService.is_cancelled
is_cancelled(id) == id \in _cancelled_jobs

\* result = await db.execute(select(GenerationJob)...); job = result.scalar_one_or_none()
ProcessSelect ==
    /\ ppc = "select"
    /\ jobFound' = jobExists
    /\ ppc' = "check"
    /\ UNCHANGED <<jobExists, jobStatus, jobProgress, _cancelled_jobs, num_samples,
                   sample_index, notProcessVars, notJobVars>>

\* if not job or cls.is_cancelled(job_id): return, through
\* finally: _cancelled_jobs.discard(job_id)
ProcessReturnsEarly ==
    /\ ppc = "check"
    /\ ~jobFound \/ is_cancelled(job_id)
    /\ _cancelled_jobs' = _cancelled_jobs \ {job_id}
    /\ ppc' = "done"
    /\ UNCHANGED <<jobExists, jobStatus, jobProgress, jobFound, num_samples, sample_index,
                   notProcessVars, notJobVars>>

\* job.status = JobStatus.PROCESSING; the commit is awaited
ProcessAssignsProcessing ==
    /\ ppc = "check"
    /\ jobFound /\ ~is_cancelled(job_id)
    /\ ppc' = "commit_processing"
    /\ UNCHANGED <<jobExists, jobStatus, jobProgress, _cancelled_jobs, jobFound, num_samples,
                   sample_index, notProcessVars, notJobVars>>

\* await db.commit()
CommitProcessing ==
    /\ ppc = "commit_processing"
    /\ jobStatus' = PROCESSING
    /\ ppc' = "select_prompt"
    /\ UNCHANGED <<jobExists, jobProgress, _cancelled_jobs, jobFound, num_samples,
                   sample_index, notProcessVars, notJobVars>>

\* the select of the prompt: found, or not (job.status = FAILED is assigned)
SelectPrompt ==
    /\ ppc = "select_prompt"
    /\ ppc' \in {"load_adapter", "commit_no_prompt"}
    /\ UNCHANGED <<jobExists, jobStatus, jobProgress, _cancelled_jobs, jobFound, num_samples,
                   sample_index, notProcessVars, notJobVars>>

\* job.status = FAILED; job.error = "Prompt not found"; commit; return
CommitNoPrompt ==
    /\ ppc = "commit_no_prompt"
    /\ jobStatus' = FAILED
    /\ _cancelled_jobs' = _cancelled_jobs \ {job_id}
    /\ ppc' = "done"
    /\ UNCHANGED <<jobExists, jobProgress, jobFound, num_samples, sample_index,
                   notProcessVars, notJobVars>>

\* await cls.load_adapter(job.adapter_id, db)
LoadAdapter ==
    /\ ppc = "load_adapter"
    /\ sample_index' = 0
    /\ ppc' = "loop"
    /\ UNCHANGED <<jobExists, jobStatus, jobProgress, _cancelled_jobs, jobFound, num_samples,
                   notProcessVars, notJobVars>>

\* for i in range(job.num_samples): if cls.is_cancelled(job_id): job.status =
\* CANCELLED, else generate; after the last sample job.status = COMPLETED
LoopHead ==
    /\ ppc = "loop"
    /\ ppc' = IF sample_index >= num_samples THEN "commit_completed"
              ELSE IF is_cancelled(job_id) THEN "commit_cancelled"
              ELSE "generate"
    /\ UNCHANGED <<jobExists, jobStatus, jobProgress, _cancelled_jobs, jobFound, num_samples,
                   sample_index, notProcessVars, notJobVars>>

\* await cls.generate_audio(...)
GenerateAudio ==
    /\ ppc = "generate"
    /\ ppc' = "upload"
    /\ UNCHANGED <<jobExists, jobStatus, jobProgress, _cancelled_jobs, jobFound, num_samples,
                   sample_index, notProcessVars, notJobVars>>

\* await storage.upload_file(...); the sample is added and job.progress assigned
UploadFile ==
    /\ ppc = "upload"
    /\ ppc' = "commit_progress"
    /\ UNCHANGED <<jobExists, jobStatus, jobProgress, _cancelled_jobs, jobFound, num_samples,
                   sample_index, notProcessVars, notJobVars>>

\* job.progress = (i + 1) / job.num_samples; await db.commit(): job.status was
\* not assigned since the last commit and is not written
CommitProgress ==
    /\ ppc = "commit_progress"
    /\ jobProgress' = sample_index + 1
    /\ sample_index' = sample_index + 1
    /\ ppc' = "loop"
    /\ UNCHANGED <<jobExists, jobStatus, _cancelled_jobs, jobFound, num_samples,
                   notProcessVars, notJobVars>>

\* job.status = CANCELLED; commit; return, through finally
CommitCancelled ==
    /\ ppc = "commit_cancelled"
    /\ jobStatus' = CANCELLED
    /\ _cancelled_jobs' = _cancelled_jobs \ {job_id}
    /\ ppc' = "done"
    /\ UNCHANGED <<jobExists, jobProgress, jobFound, num_samples, sample_index,
                   notProcessVars, notJobVars>>

\* job.status = COMPLETED; job.audio_ids = audio_ids; commit; then finally
CommitCompleted ==
    /\ ppc = "commit_completed"
    /\ jobStatus' = COMPLETED
    /\ _cancelled_jobs' = _cancelled_jobs \ {job_id}
    /\ ppc' = "done"
    /\ UNCHANGED <<jobExists, jobProgress, jobFound, num_samples, sample_index,
                   notProcessVars, notJobVars>>

\* load_adapter, generate_audio or upload_file raises: except Exception
ProcessRaises ==
    /\ ppc \in {"load_adapter", "generate", "upload"}
    /\ ppc' = "handler"
    /\ UNCHANGED <<jobExists, jobStatus, jobProgress, _cancelled_jobs, jobFound, num_samples,
                   sample_index, notProcessVars, notJobVars>>

\* job.status = FAILED; job.error = str(e); commit; raise, through finally
HandleJobError ==
    /\ ppc = "handler"
    /\ jobStatus' = FAILED
    /\ _cancelled_jobs' = _cancelled_jobs \ {job_id}
    /\ ppc' = "done"
    /\ UNCHANGED <<jobExists, jobProgress, jobFound, num_samples, sample_index,
                   notProcessVars, notJobVars>>

\* DELETE /generate/{job_id}: the select of cancel_job
CancelSelect ==
    /\ kpc = "idle"
    /\ cancels < MaxCancels
    /\ cancels' = cancels + 1
    /\ cancelRow' = [exists |-> jobExists, status |-> jobStatus]
    /\ response' = "none"
    /\ kpc' = "check"
    /\ UNCHANGED <<jobExists, jobStatus, _cancelled_jobs, accepted, notCancelVars, notJobVars>>

\* if not job: 404
CancelNotFound ==
    /\ kpc = "check"
    /\ ~cancelRow.exists
    /\ response' = "404"
    /\ kpc' = "idle"
    /\ UNCHANGED <<jobExists, jobStatus, _cancelled_jobs, cancelRow, cancels, accepted,
                   notCancelVars, notJobVars>>

\* if job.status in [COMPLETED, FAILED]: 400
CancelRejected ==
    /\ kpc = "check"
    /\ cancelRow.exists
    /\ cancelRow.status \in {COMPLETED, FAILED}
    /\ response' = "400"
    /\ kpc' = "idle"
    /\ UNCHANGED <<jobExists, jobStatus, _cancelled_jobs, cancelRow, cancels, accepted,
                   notCancelVars, notJobVars>>

\* job.status = CANCELLED; job.completed_at = ...; the commit is awaited
CancelAssigns ==
    /\ kpc = "check"
    /\ cancelRow.exists
    /\ cancelRow.status \notin {COMPLETED, FAILED}
    /\ kpc' = "commit"
    /\ UNCHANGED <<jobExists, jobStatus, _cancelled_jobs, cancelRow, response, cancels,
                   accepted, notCancelVars, notJobVars>>

\* await db.commit()
CancelCommit ==
    /\ kpc = "commit"
    /\ jobStatus' = CANCELLED
    /\ kpc' = "signal"
    /\ UNCHANGED <<jobExists, _cancelled_jobs, cancelRow, response, cancels, accepted,
                   notCancelVars, notJobVars>>

\* GenerationService.cancel_job(job_id): _cancelled_jobs.add(job_id); 204
CancelSignal ==
    /\ kpc = "signal"
    /\ _cancelled_jobs' = _cancelled_jobs \cup {job_id}
    /\ accepted' = TRUE
    /\ response' = "204"
    /\ kpc' = "idle"
    /\ UNCHANGED <<jobExists, jobStatus, cancelRow, cancels, notCancelVars, notJobVars>>

\* A job that create_generation_job has committed as QUEUED with its
\* background task added, or an id without a row; requests to cancel it.
InitJob ==
    /\ InitIdle
    /\ runStatus = COMPLETED
    /\ runError = NoError
    /\ runMetrics = EmptyDict
    /\ logExists = TRUE
    /\ logData = <<>>
    /\ returncode = 0
    /\ tpc = "done"
    /\ cpc = "idle"
    /\ lpc = [s \in Streams |-> "none"]
    /\ input = [s \in Streams |-> <<>>]
    /\ completedAppends = <<>>
    /\ op = "none"
    /\ args = <<>>
    /\ out = <<>>
    /\ jobExists \in BOOLEAN
    /\ jobStatus = QUEUED
    /\ jobProgress = 0
    /\ _cancelled_jobs = {}
    /\ ppc = "select"
    /\ jobFound = FALSE
    /\ num_samples \in 1..MaxSamples
    /\ sample_index = 0
    /\ kpc = "idle"
    /\ cancelRow = NoJobRow
    /\ response = "none"
    /\ cancels = 0
    /\ accepted = FALSE

ProcessNext ==
    \/ ProcessSelect
    \/ ProcessReturnsEarly
    \/ ProcessAssignsProcessing
    \/ CommitProcessing
    \/ SelectPrompt
    \/ CommitNoPrompt
    \/ LoadAdapter
    \/ LoopHead
    \/ GenerateAudio
    \/ UploadFile
    \/ CommitProgress
    \/ CommitCancelled
    \/ CommitCompleted
    \/ ProcessRaises
    \/ HandleJobError

CancelNext ==
    \/ CancelSelect
    \/ CancelNotFound
    \/ CancelRejected
    \/ CancelAssigns
    \/ CancelCommit
    \/ CancelSignal

NextJob == ProcessNext \/ CancelNext

SpecJob == InitJob /\ [][NextJob]_vars

\* ========================================================================
\* Properties
\* ========================================================================
IsPrefix(a, b) == Len(a) <= Len(b) /\ SubSeq(b, 1, Len(a)) = a

RECURSIVE Payloads(_)
Payloads(evs) ==
    IF evs = <<>> THEN <<>>
    ELSE (IF Head(evs).kind = "log" THEN Head(evs).data ELSE <<>>) \o Payloads(Tail(evs))

EventsOfKind(kind) == {i \in DOMAIN events : events[i].kind = kind}

StreamOpen == spc \in {"poll_run", "poll_log", "sleep"}

\* C1: after any number of completed append_log calls, those of the two drain
\* loops included, the log is the concatenation of the appended chunks in the
\* order their commits completed (so its size is the sum of their lengths).
AppendTotality == logExists => logData = completedAppends

\* C2: the data stored before a step is a prefix of the data stored after it
\* while the log exists, and append_log returns the size stored before its
\* commit plus len(chunk) (len(chunk) when it creates the log).
LogNeverRewritten ==
    [][/\ (logExists /\ logExists') => IsPrefix(logData, logData')
       /\ \A s \in Streams :
            (lpc[s] = "append_commit" /\ lpc'[s] = "parse")
               => appendRet'[s] =
                    (IF logExists THEN Len(logData) ELSE 0) + Len(chunk[s].bytes)]_vars

\* C3: while a stream is open, the payloads of the log events sent so far,
\* concatenated, are the first last_size bytes of the run's log.
SentIsLogPrefix ==
    (StreamOpen /\ logExists)
        => /\ last_size <= Len(logData)
           /\ Payloads(events) = SubSeq(logData, 1, last_size)

\* C3 with one drain loop (SpecClock): the same statement holds there.
SentIsLogPrefixOneLoop == SentIsLogPrefix /\ Len(Payloads(events)) = last_size

\* C4: at most one done event; it is the last event, the stream has ended, the
\* status seen in that poll is terminal, and exit_code is 0 exactly for
\* COMPLETED and 1 for FAILED and CANCELLED.
DoneOnceLastAndCoded ==
    /\ Cardinality(EventsOfKind("done")) <= 1
    /\ \A i \in EventsOfKind("done") :
         /\ i = Len(events)
         /\ spc = "ended"
         /\ seenStatus \in {COMPLETED, FAILED, CANCELLED}
         /\ (events[i].exit_code = 0) <=> (seenStatus = COMPLETED)
         /\ (seenStatus \in {FAILED, CANCELLED}) => events[i].exit_code = 1

\* C4 witness: a stream that sent log data and a heartbeat ended with done for
\* a FAILED run.
DoneAfterTrafficWitness ==
    /\ EventsOfKind("done") # {}
    /\ EventsOfKind("log") # {}
    /\ EventsOfKind("heartbeat") # {}
    /\ seenStatus = FAILED

\* C5: the final_size of done is the number of bytes the log events of the
\* stream carried.
FinalSizeIsBytesSent ==
    \A i \in EventsOfKind("done") : events[i].final_size = Len(Payloads(events))

\* C6: a poll that finds the run gone ends the stream and emits nothing.
MissingRunEndsSilently ==
    [][(spc = "poll_run" /\ ~runExists /\ spc' # spc)
          => (spc' = "ended" /\ events' = events)]_vars

\* C6 witness: the stream ended on a deleted run without done, with bytes of
\* the log never delivered.
EndedSilentlyWitness ==
    /\ spc = "ended"
    /\ ~runExists
    /\ EventsOfKind("done") = {}
    /\ last_size < Len(completedAppends)

\* The events appended by a step.
NewEvents == {i \in DOMAIN events' : i > Len(events)}

TerminalRunLeadsToDone ==
    /\ [](spc = "ended" => runStatus \in TerminalStatus)
    /\ ((StreamOpen /\ runExists /\ runStatus \in TerminalStatus)
           ~> (spc = "ended" /\ (EventsOfKind("done") # {} \/ ~runExists)))

\* C8 witness: a stream that polled, slept and sent data has ended with done
\* on a COMPLETED run that still exists.
StreamEndedWithDoneWitness ==
    /\ spc = "ended"
    /\ runExists
    /\ runStatus = COMPLETED
    /\ EventsOfKind("done") # {}
    /\ EventsOfKind("log") # {}
    /\ now > 0

\* C9: once capture_subprocess_output has returned and the run exists, every
\* step of every series of the downsampled accumulator is in run.metrics.
FinalFlushPersistsAll ==
    (cpc = "returned" /\ runExists)
        => \A n \in DOMAIN FinalMetrics(accumulated_metrics) :
              /\ n \in DOMAIN runMetrics
              /\ SeqSteps(FinalMetrics(accumulated_metrics)[n]) \subseteq SeqSteps(runMetrics[n])

\* C9 witness: the capture returned after a periodic flush and blocks parsed
\* since that flush (chunk_count counts them), with run.metrics holding more
\* points than the last periodic flush could see.
TailAfterPeriodicFlushWitness ==
    /\ cpc = "returned"
    /\ runExists
    /\ chunk_count \in 1..(METRIC_UPDATE_INTERVAL - 1)
    /\ \E n \in DOMAIN accumulated_metrics :
          /\ Len(accumulated_metrics[n]) > chunk_count
          /\ n \in DOMAIN runMetrics
          /\ Len(runMetrics[n]) >= Len(accumulated_metrics[n])

\* C10: no write of run.metrics during the capture removes a (series, step)
\* pair the previous committed value held.
PersistedCoverageMonotone ==
    [][\A n \in DOMAIN runMetrics :
          /\ n \in DOMAIN runMetrics'
          /\ SeqSteps(runMetrics[n]) \subseteq SeqSteps(runMetrics'[n])]_vars

\* C11: every series of run.metrics has strictly ascending steps (unique, and
\* sorted by step).
PersistedSeriesSorted ==
    \A n \in DOMAIN runMetrics :
       \A i, j \in 1..Len(runMetrics[n]) :
          i < j => runMetrics[n][i].step < runMetrics[n][j].step

RangeOf(q) == {q[i] : i \in 1..Len(q)}

\* the timestamps (block ids) of the points of a metrics dict
PointBlocks(d) == UNION {{d[n][i].timestamp : i \in 1..Len(d[n])} : n \in DOMAIN d}

FaultsOfKind(kind) == {f \in faults : f.kind = kind}

\* C12: a block whose append_log raised is neither in the log nor in the
\* metrics; capture_subprocess_output does not return; and when start_training
\* is done the run, if it exists, is FAILED with the exception's text.
AppendFailureIsFatal ==
    \A f \in FaultsOfKind("append") :
       /\ f.id \notin RangeOf(completedAppends)
       /\ f.id \notin RangeOf(logData)
       /\ f.id \notin PointBlocks(accumulated_metrics) \cup PointBlocks(runMetrics)
       /\ cpc \in {"gather", "raised"}
       /\ tpc \in {"capture", "handler", "done"}
       /\ (tpc = "done" /\ runExists) => (runStatus = FAILED /\ runError = ExceptionText)

\* C12 witness: after an earlier block was stored, an append raised and
\* start_training ended with the run FAILED.
AppendFailedRunFailedWitness ==
    /\ FaultsOfKind("append") # {}
    /\ tpc = "done"
    /\ runStatus = FAILED
    /\ runError = ExceptionText
    /\ completedAppends # <<>>

\* C13: the step in which the parse or merge of a block raises leaves
\* read_stream at its next read, capture and start_training where they were,
\* the block's bytes appended, and every step of every series of the
\* accumulator in place.
ParseFailureIsIsolated ==
    [][\A s \in Streams :
          (lpc[s] = "parse" /\ lpc'[s] # "parse" /\ faults' # faults)
             => /\ lpc'[s] = "read"
                /\ cpc' = cpc
                /\ tpc' = tpc
                /\ chunk[s].id \in RangeOf(completedAppends)
                /\ \A n \in DOMAIN accumulated_metrics :
                      /\ n \in DOMAIN accumulated_metrics'
                      /\ SeqSteps(accumulated_metrics[n])
                            \subseteq SeqSteps(accumulated_metrics'[n])]_vars

\* C13 witness: a parse raised, yet capture returned with every block in the
\* log and metrics of other blocks in the accumulator.
ParseFailedCaptureReturnedWitness ==
    /\ FaultsOfKind("parse") # {}
    /\ FaultsOfKind("append") = {}
    /\ cpc = "returned"
    /\ Len(completedAppends) = MaxFaultBlocks
    /\ Truthy(accumulated_metrics)

\* C14: capture_subprocess_output returns process.returncode, after every pipe
\* was read to end-of-stream (a missing pipe has nothing to read) and right
\* after process.wait().
CaptureReturnsExitCode ==
    /\ [](cpc = "returned"
            => /\ captureResult = returncode
               /\ \A s \in Streams : lpc[s] \in {"none", "eof"} /\ input[s] = <<>>)
    /\ [][(cpc' = "returned" /\ cpc # "returned") => cpc = "wait"]_vars

\* C14 witness: the capture of a process with one pipe returned exit code 1
\* after reading MaxBlocks blocks.
CaptureReturnedWitness ==
    /\ cpc = "returned"
    /\ captureResult = 1
    /\ lpc["stdout"] = "eof"
    /\ lpc["stderr"] = "none"
    /\ Len(completedAppends) = MaxBlocks

StatusRank(status) == IF status = PENDING THEN 0 ELSE IF status = RUNNING THEN 1 ELSE 2

\* C15: run.status never moves backwards, and a terminal status is never
\* replaced by another status.
StatusOnlyMovesForward ==
    [][/\ StatusRank(runStatus') >= StatusRank(runStatus)
       /\ runStatus \in TerminalStatus => runStatus' = runStatus]_vars

\* C16: merge_metrics is idempotent in its second argument: merging the same
\* new metrics into the result of a merge returns that result again, also when
\* the new metrics hold several points for one step.
MergeIsIdempotent ==
    (op = "merge_metrics" /\ Len(out) = 2) => out[2] = out[1]

\* merged twice, the new loss series holding two points for a step the
\* existing series holds as well, and the merge having replaced that point
MergedTwiceRepeatedStepWitness ==
    /\ op = "merge_metrics"
    /\ Len(out) = 2
    /\ "loss" \in DOMAIN args[1] /\ "loss" \in DOMAIN args[2]
    /\ \E i, j \in 1..Len(args[2]["loss"]) :
         /\ i < j
         /\ args[2]["loss"][i].step = args[2]["loss"][j].step
         /\ args[2]["loss"][i].step \in SeqSteps(args[1]["loss"])
    /\ out[1]["loss"] # args[1]["loss"]

\* the digits after the decimal point of a value written out in decimal
\* ("1.2", "1.234", "0.00001"; a whole number is written "2.0")
DigitsAfterPoint(v) == IF v.dec = 0 THEN 1 ELSE v.dec

PointsAtStep(series, st) == {series[i] : i \in {j \in 1..Len(series) : series[j].step = st}}

\* C17: for a step present in both arguments of merge_metrics the result holds
\* the point whose value has the most digits after the decimal point,
\* whichever side it came from, and the existing point when no new point has
\* strictly more digits than it.
MergeKeepsMoreDigits ==
    (op = "merge_metrics" /\ Len(out) >= 1) =>
        \A n \in DOMAIN args[1] \cap DOMAIN args[2] :
            \A st \in SeqSteps(args[1][n]) \cap SeqSteps(args[2][n]) :
                LET old == IndexByStep([t \in {} |-> <<>>], args[1][n])[st]
                    new == PointsAtStep(args[2][n], st)
                    kept == PointsAtStep(out[1][n], st)
                IN /\ Cardinality(kept) = 1
                   /\ kept \subseteq {old} \cup new
                   /\ \A r \in kept : \A x \in {old} \cup new :
                        DigitsAfterPoint(r.value) >= DigitsAfterPoint(x.value)
                   /\ (\A x \in new : DigitsAfterPoint(x.value) <= DigitsAfterPoint(old.value))
                        => kept = {old}

\* floor(i * L / M)
ExactIndex(i, L, M) == (i * L) \div M

FinalLossIsValueAtHighestStep ==
    (op = "get_final_loss" /\ out # <<>>) =>
        IF args[1].none THEN out[1] = None
        ELSE IF "loss" \notin DOMAIN args[1].value THEN out[1] = None
        ELSE IF args[1].value["loss"] = <<>> THEN out[1] = None
        ELSE LET loss_data == args[1].value["loss"]
             IN \E i \in 1..Len(loss_data) :
                  /\ \A j \in 1..Len(loss_data) : loss_data[j].step <= loss_data[i].step
                  /\ out[1] = Some(loss_data[i].value)

\* the final loss was taken from a list whose last point has not the highest
\* step and not the value returned
FinalLossOfUnsortedWitness ==
    /\ op = "get_final_loss"
    /\ out # <<>>
    /\ ~args[1].none
    /\ "loss" \in DOMAIN args[1].value
    /\ LET loss_data == args[1].value["loss"]
       IN /\ Len(loss_data) >= 2
          /\ loss_data[Len(loss_data)].step < loss_data[1].step
          /\ out[1] = Some(loss_data[1].value)
          /\ loss_data[Len(loss_data)].value # loss_data[1].value

\* C20: parse_log_line emits at most one loss point for a line, by fixed
\* priority: the step+loss form at its own step; else the epoch average at the
\* epoch number, with an epoch point at that step; else the epoch progress-bar
\* loss; else the 'loss': value form at the current step, or at 1 when there is
\* none yet.  A pattern of lower priority never replaces the point of a higher
\* one that matched the same line.  (The call is the first one on a parser
\* when the current step it is given is 0: then a step is there only if the
\* line bears one.)
LossPointByPriority ==
    (op = "parse_log_line" /\ out # <<>>) =>
        LET line == args[1]
            metrics == out[1].metrics
            seen == line.global_step # NoMatch \/ line.step_only # NoMatch \/ args[2] > 0
            at == IF line.global_step # NoMatch THEN line.global_step[1]
                  ELSE IF line.step_only # NoMatch THEN line.step_only[1]
                  ELSE args[2]
            Loss(step, value) ==
                "loss" \in DOMAIN metrics /\ metrics["loss"] = <<Point(step, value, args[3])>>
        IN IF line.step_loss # NoMatch
           THEN Loss(line.step_loss[1], line.step_loss[2]) /\ "epoch" \notin DOMAIN metrics
           ELSE IF line.epoch_avg_loss # NoMatch
           THEN /\ Loss(line.epoch_avg_loss[1], line.epoch_avg_loss[2])
                /\ "epoch" \in DOMAIN metrics
                /\ Len(metrics["epoch"]) = 1
                /\ metrics["epoch"][1].step = line.epoch_avg_loss[1]
           ELSE IF line.epoch_progress_loss # NoMatch
           THEN Loss(line.epoch_progress_loss[1], line.epoch_progress_loss[2])
           ELSE IF line.hf_trainer_dict # NoMatch
           THEN Loss(IF seen THEN at ELSE 1, line.hf_trainer_dict[1])
           ELSE "loss" \notin DOMAIN metrics

\* a line that all four loss patterns match was parsed
AllLossPatternsMatchWitness ==
    /\ op = "parse_log_line"
    /\ out # <<>>
    /\ args[1].step_loss # NoMatch
    /\ args[1].epoch_avg_loss # NoMatch
    /\ args[1].epoch_progress_loss # NoMatch
    /\ args[1].hf_trainer_dict # NoMatch
    /\ Len(out[1].metrics["loss"]) = 1

\* the step a line bears: that of its loss form, else of its step marker,
\* global_step before step/iteration; <<>> when it bears none
LineStep(line) ==
    IF line.step_loss # NoMatch THEN <<line.step_loss[1]>>
    ELSE IF line.epoch_avg_loss # NoMatch THEN <<line.epoch_avg_loss[1]>>
    ELSE IF line.epoch_progress_loss # NoMatch THEN <<line.epoch_progress_loss[1]>>
    ELSE IF line.global_step # NoMatch THEN line.global_step
    ELSE line.step_only

\* a line that holds a step marker and nothing else
BareStepMarker(line) ==
    /\ line.global_step # NoMatch \/ line.step_only # NoMatch
    /\ [line EXCEPT !.global_step = NoMatch, !.step_only = NoMatch] = PlainLine

StampedMetrics == {"learning_rate", "grad_norm", "rewards_chosen", "rewards_rejected"}

\* C21: over the calls of parse_log_line on one parser, the learning_rate,
\* grad_norm, rewards_chosen and rewards_rejected points of a line carry the
\* step of the most recent line that bears a step, the line itself included,
\* or 1 when no line so far bears one; a line that holds only a step marker
\* yields no point and sets the current step, global_step before step.
StampedWithCurrentStep ==
    (op = "parse_log_lines") =>
        \A k \in 1..Len(out) :
            LET bearing == {j \in 1..k : LineStep(args[1][j]) # NoMatch}
                last == CHOOSE j \in bearing : \A i \in bearing : i <= j
                stamp == IF bearing = {} THEN 1 ELSE LineStep(args[1][last])[1]
            IN /\ \A n \in StampedMetrics \cap DOMAIN out[k].metrics :
                     /\ Len(out[k].metrics[n]) = 1
                     /\ out[k].metrics[n][1].step = stamp
               /\ BareStepMarker(args[1][k]) =>
                     /\ out[k].metrics = EmptyDict
                     /\ out[k].current_step = LineStep(args[1][k])[1]

\* the blocks of a pipe in the order read_stream takes them: those parsed,
\* the one in hand, those still in the pipe
InHand(s) == IF lpc[s] \in {"append_select", "append_commit", "parse"} THEN <<chunk[s].id>> ELSE <<>>

BlockOrder(s) == parsed[s] \o InHand(s) \o [i \in 1..Len(input[s]) |-> input[s][i].id]

\* C22: the parser and the accumulator change only by one drain loop parsing
\* the block it holds and merging the result, in one step that starts from the
\* parser state and the accumulator as they are and in which the other loop
\* does not move; each pipe's blocks are parsed in the order they left the pipe.
ParserUsedByOneLoopAtATime ==
    /\ [](\A s \in Streams : \A i \in 1..(Len(BlockOrder(s)) - 1) :
             BlockOrder(s)[i + 1] = BlockOrder(s)[i] + 1)
    /\ [][(accumulated_metrics' # accumulated_metrics \/ current_step' # current_step
             \/ parsed' # parsed) =>
            \E s \in Streams :
               /\ lpc[s] = "parse"
               /\ \A t \in Streams \ {s} : lpc'[t] = lpc[t] /\ parsed'[t] = parsed[t]
               /\ parsed'[s] = Append(parsed[s], chunk[s].id)
               /\ LET r == parse_log_chunk(chunk[s].lines, current_step, chunk[s].id)
                  IN /\ current_step' = r.current_step
                     /\ accumulated_metrics' =
                           IF Truthy(r.metrics)
                           THEN merge_metrics(accumulated_metrics, r.metrics)
                           ELSE accumulated_metrics]_vars

\* both loops have parsed blocks, one of them while the other was between
\* reading a block and parsing it
BothLoopsParsedWitness ==
    /\ parsed["stdout"] # <<>>
    /\ Len(parsed["stderr"]) >= 2
    /\ lpc["stdout"] = "append_commit"
    /\ \A n \in DOMAIN accumulated_metrics :
         Len(accumulated_metrics[n]) >= 1
    /\ "loss" \in DOMAIN accumulated_metrics
    /\ Len(accumulated_metrics["loss"]) >= 3

\* the commit of the final flush
FinalFlushStep == cpc = "final_commit" /\ cpc' = "wait"

\* process.wait() has returned
ProcessAwaited == cpc = "returned"

\* the claim of C23 as it is stated: the final flush is written only after
\* both drain loops reached end-of-stream and the process has been awaited,
\* and capture writes no metrics after it
FinalFlushAfterProcessAwaited ==
    /\ [][FinalFlushStep => (LoopsFinished /\ ProcessAwaited)]_vars
    /\ [][(cpc \in {"wait", "returned"}) => runMetrics' = runMetrics]_vars

\* C23: the final flush is written only after both drain loops reached
\* end-of-stream, and before the process is awaited; capture writes no metrics
\* after it.
FinalFlushAfterLoopsBeforeWait ==
    /\ [](cpc \in {"final_select", "final_compute", "final_commit"} => LoopsFinished)
    /\ [][FinalFlushStep => (LoopsFinished /\ ~ProcessAwaited /\ captureResult = -1)]_vars
    /\ [][(cpc \in {"wait", "returned"}) => runMetrics' = runMetrics]_vars

\* the final flush is committed and the process is not awaited yet
FinalFlushedNotAwaitedWitness ==
    /\ cpc = "wait"
    /\ captureResult = -1
    /\ Truthy(runMetrics)
    /\ runMetrics = pendingMetrics["main"]
    /\ \A s \in Streams : lpc[s] = "eof" /\ parsed[s] # <<>>

\* C24: read_stream calls _update_run_metrics only when METRIC_UPDATE_INTERVAL
\* blocks have been counted since its previous call, the block that triggers
\* the call included, so never for two blocks in a row, and the block counter
\* is 0 when the call is over.
PeriodicWriteEveryInterval ==
    /\ [][\A s \in Streams :
            (lpc[s] = "parse" /\ lpc'[s] = "flush_select") =>
                sinceWrite + 1 >= METRIC_UPDATE_INTERVAL]_vars
    /\ [][\A s \in Streams :
            (lpc[s] \in {"flush_compute", "flush_resume"} /\ lpc'[s] = "read") =>
                chunk_count' = 0]_vars

\* C25: after a call of merge_metrics every series of the mapping it returns
\* is sorted ascending by step with no step twice, the series named in the new
\* metrics and those that only the existing metrics hold.
MergedSeriesSortedUnique ==
    (op = "merge_metrics" /\ Len(out) >= 1) =>
        \A n \in DOMAIN out[1] :
            \A i \in 1..(Len(out[1][n]) - 1) : out[1][n][i].step < out[1][n][i + 1].step

\* C27: once the final flush is committed, every step that a series holds both
\* in the accumulator and in run.metrics has the accumulator's value in
\* run.metrics.
PersistedValuesAreAccumulated ==
    (cpc \in {"wait", "returned"} /\ runExists /\ Truthy(accumulated_metrics)) =>
        \A n \in DOMAIN accumulated_metrics \cap DOMAIN runMetrics :
            \A i \in 1..Len(accumulated_metrics[n]), j \in 1..Len(runMetrics[n]) :
                accumulated_metrics[n][i].step = runMetrics[n][j].step
                    => runMetrics[n][j].value = accumulated_metrics[n][i].value

\* C28: once an append that raised in one read_stream has left
\* capture_subprocess_output, no step appends to the log or writes run.metrics;
\* and no step appends once start_training has stored FAILED.
NoAppendAfterCaptureRaised ==
    /\ [][(cpc = "raised")
             => (logData' = logData /\ completedAppends' = completedAppends
                 /\ runMetrics' = runMetrics)]_vars
    /\ [][(tpc = "done" /\ runStatus = FAILED)
             => (logData' = logData /\ completedAppends' = completedAppends)]_vars

\* C29: once the client has received done, the log of the run does not change
\* while it exists, and the payloads of the log events the client received,
\* concatenated, are the whole log.
DoneMeansLogComplete ==
    /\ [][(EventsOfKind("done") # {} /\ logExists /\ logExists') => logData' = logData]_vars
    /\ []((EventsOfKind("done") # {} /\ logExists) => Payloads(events) = logData)

\* C30: once a request to cancel the job was accepted (CANCELLED committed and
\* the id added to the cancelled set), no step stores COMPLETED or PROCESSING
\* for the job; when process_job has ended the id is not in the cancelled set;
\* and a request that finds the job COMPLETED or FAILED is answered 400 and
\* changes neither the row nor the set.
CancelledJobStaysCancelled ==
    /\ [][(accepted /\ jobStatus' # jobStatus) => jobStatus' \notin {COMPLETED, PROCESSING}]_vars
    /\ [](ppc = "done" => ~is_cancelled(job_id))
    /\ [][(kpc = "check" /\ cancelRow.exists /\ cancelRow.status \in {COMPLETED, FAILED}
           /\ kpc' # kpc)
             => (response' = "400" /\ jobStatus' = jobStatus
                 /\ _cancelled_jobs' = _cancelled_jobs)]_vars

\* C26: once capture_subprocess_output has returned for a run that started
\* with empty metrics, no series of run.metrics holds more than
\* FINAL_MAX_POINTS points.
PersistedSeriesBounded ==
    (cpc = "returned" /\ runExists) =>
        \A n \in DOMAIN runMetrics : Len(runMetrics[n]) <= FINAL_MAX_POINTS

====
